---- MODULE Spec2Model ----
(***************************************************************************)
(* Model of solara/comm.py: the orphan-comm tracker.                       *)
(*                                                                         *)
(* The module keeps one process-wide dict, orphan_comm_stacks, and (when   *)
(* the comm library can be imported) replaces the library's global         *)
(* create_comm slot by create_dummy_comm, which builds a DummyComm,        *)
(* captures the formatted call stack and stores it under the instance.     *)
(*                                                                         *)
(* Strings are modelled as sequences of tokens, so that joining and        *)
(* "contains" are computed rather than assumed.  Object identities are     *)
(* the naturals 1, 2, ... in allocation order; 0 stands for None.          *)
(***************************************************************************)
EXTENDS Integers, Sequences, FiniteSets

VARIABLES
    commPresent,        \* whether "import comm" succeeds in this process
    loaded,             \* whether solara/comm.py has been executed
    module_names,       \* the names the module's namespace binds
    create_comm,        \* what the library's global slot comm.create_comm holds
    orphan_comm_stacks, \* the registry: instance |-> stack-trace string
    objs,               \* every object constructed so far, by identity
    alive,              \* identities not yet reclaimed by the collector
    held,               \* identities some owner outside the tracker still references
    output,             \* messages that actually left through a channel
    returned,           \* the instances create_dummy_comm has returned, in order
    last,               \* the operation just performed and its outcome
    thr                 \* per thread: position inside create_dummy_comm and its locals

vars == << commPresent, loaded, module_names, create_comm, orphan_comm_stacks,
           objs, alive, held, output, returned, last, thr >>

----------------------------------------------------------------------------
(* Bounds *)

MaxInst == 3

NumThreads == 2

Threads == 1..NumThreads

\* The frames a caller of the factory can be in.
Sites == {"app.py:run", "widget.py:open"}

\* Caller stacks, oldest frame first: one frame deep, or two (run calls open).
Stacks == {<<a>> : a \in Sites} \cup {<<"app.py:run", "widget.py:open">>}

\* Errors the constructor or traceback.format_stack may raise.
Errors == {"TypeError", "MemoryError"}

Outcomes == {"ok", "ctor_raises", "format_stack_raises"}

MsgTypes == {"comm_open", "comm_msg", "comm_close"}

Payloads == {"None", "data"}

----------------------------------------------------------------------------
(* Pure helpers *)

\* One entry of traceback.format_stack(): the text of a frame.
FormatFrame(f) == <<"  File ", f, "\n">>

\* traceback.format_stack(): one string per frame, oldest first.
FormatStack(stack) == [k \in 1..Len(stack) |-> FormatFrame(stack[k])]

\* "".join(list of strings)
RECURSIVE Join(_)
Join(strs) == IF strs = <<>> THEN <<>> ELSE Head(strs) \o Join(Tail(strs))

\* A buggy capture: the stack is formatted without the frames of the callers.
CaptureStackNoCallers(callers) == Join(FormatStack(<<"create_dummy_comm">>))

\* Line 18, evaluated inside create_dummy_comm called from `callers`:
\* the current stack is the callers' frames followed by the factory's own.
CaptureStack(callers) == Join(FormatStack(callers \o <<"create_dummy_comm">>))

\* A buggy store: the assignment of line 19 is missing.
StoreSubscrMissing(d, k, v) == d

\* A buggy store: the registry is rebound to a dict holding only the new entry.
StoreSubscrRebind(d, k, v) == [x \in {k} |-> v]

\* d[k] = v on a plain dict (line 19): one in-place, atomic update.
StoreSubscr(d, k, v) == [x \in DOMAIN d \cup {k} |-> IF x = k THEN v ELSE d[x]]

\* A buggy factory: a failed stack capture is swallowed and an empty trace stored.
create_registry_swallow(reg, i, callers, outcome) ==
    IF outcome = "ok" THEN StoreSubscr(reg, i, CaptureStack(callers))
    ELSE IF outcome = "format_stack_raises" THEN StoreSubscr(reg, i, <<>>)
    ELSE reg

\* The registry after the body of create_dummy_comm (lines 17-20): the store of
\* line 19 is reached only when lines 17 and 18 did not raise.
create_registry(reg, i, callers, outcome) ==
    IF outcome = "ok" THEN StoreSubscr(reg, i, CaptureStack(callers)) ELSE reg

\* A buggy factory: failures are caught and re-raised as another error.
create_raised_translated(outcome, err) ==
    IF outcome = "ok" THEN "none" ELSE "RuntimeError"

\* What the caller of create_dummy_comm sees raised: the body has no try/except.
create_raised(outcome, err) == IF outcome = "ok" THEN "none" ELSE err

\* A buggy publish_msg: the message is sent, as a real channel would.
publish_msg_send(out, msg) == Append(out, msg)

\* DummyComm.publish_msg (lines 13-14): the body is `pass`.
publish_msg(out, msg) == out

\* A buggy module body: the factory is defined in both branches.
ModuleNamesAlways(present) ==
    {"orphan_comm_stacks", "DummyComm", "create_dummy_comm"}

\* The names bound once the module body has run (lines 9-26).
ModuleNames(present) ==
    IF present THEN {"orphan_comm_stacks", "DummyComm", "create_dummy_comm"}
    ELSE {"orphan_comm_stacks", "DummyComm"}

\* A buggy module body: line 22 is missing.
PatchedSlotForgotten(present, slot) == slot

\* The library's slot after the module body has run (line 22).
PatchedSlot(present, slot) == IF present THEN "create_dummy_comm" ELSE slot

\* The class the name DummyComm is bound to (lines 12 and 25).
DummyCommClass(present) == IF present THEN "DummyComm" ELSE "FallbackDummyComm"

\* The methods a class defines for publishing.
Methods(cls) == IF cls = "FallbackDummyComm" THEN {} ELSE {"publish_msg"}

\* A registry of weak references would let its keys be collected.
ReclaimableWeak(i) == i \in alive /\ i \notin held

\* An object can be collected when nothing references it; the registry is a
\* plain dict (line 9), whose keys are ordinary (owning) references.
Reclaimable(i) ==
    i \in alive /\ i \notin held /\ i \notin DOMAIN orphan_comm_stacks

NextId == Len(objs) + 1

NewObj(cls, origin, callers) == [cls |-> cls, origin |-> origin, callers |-> callers]

IdleThread == [pc |-> "idle", callers |-> <<>>, comm |-> 0, stacktrace |-> <<>>]

NoOp == [op |-> "none", served |-> "none", thrown |-> "none", raised |-> "none",
         ret |-> 0, target |-> 0]

----------------------------------------------------------------------------
(* Initial state: the process before solara/comm.py is imported. *)

Init ==
    /\ commPresent \in BOOLEAN
    /\ loaded = FALSE
    /\ module_names = {}
    /\ create_comm = IF commPresent THEN "library_default" ELSE "no_library"
    /\ orphan_comm_stacks = [x \in {} |-> <<>>]
    /\ objs = <<>>
    /\ alive = {}
    /\ held = {}
    /\ output = <<>>
    /\ returned = <<>>
    /\ last = NoOp
    /\ thr = [t \in Threads |-> IdleThread]

----------------------------------------------------------------------------
(* Operations, each executed as a whole (one thread of control). *)

\* Executing the module body (lines 1-26), once per process.
LoadModule ==
    /\ ~loaded
    /\ loaded' = TRUE
    /\ orphan_comm_stacks' = [x \in {} |-> <<>>]
    /\ module_names' = ModuleNames(commPresent)
    /\ create_comm' = PatchedSlot(commPresent, create_comm)
    /\ last' = [NoOp EXCEPT !.op = "load"]
    /\ UNCHANGED << commPresent, objs, alive, held, output, returned, thr >>

\* The body of create_dummy_comm (lines 16-20), called from `callers`; the
\* constructor of line 17 and the capture of line 18 may raise `err`.
CreateBody(opname, callers, outcome, err) ==
    /\ orphan_comm_stacks' =
           create_registry(orphan_comm_stacks, NextId, callers, outcome)
    /\ last' = [op |-> opname, served |-> "create_dummy_comm",
                thrown |-> IF outcome = "ok" THEN "none" ELSE err,
                raised |-> create_raised(outcome, err),
                ret |-> IF outcome = "ok" THEN NextId ELSE 0,
                target |-> 0]
    /\ IF outcome = "ctor_raises"
       THEN UNCHANGED << objs, alive, held, returned >>
       ELSE /\ objs' = Append(objs,
                   NewObj(DummyCommClass(commPresent),
                          IF outcome = "ok" THEN "create_dummy_comm"
                          ELSE "create_dummy_comm_failed",
                          callers))
            /\ alive' = alive \cup {NextId}
            /\ held' = IF outcome = "ok" THEN held \cup {NextId} ELSE held
            /\ returned' = IF outcome = "ok" THEN Append(returned, NextId)
                           ELSE returned
    /\ UNCHANGED << commPresent, loaded, module_names, create_comm, output, thr >>

\* A call of the factory by its own name, solara.comm.create_dummy_comm(...).
CreateDummyComm ==
    /\ "create_dummy_comm" \in module_names
    /\ NextId <= MaxInst
    /\ \E callers \in Stacks, outcome \in Outcomes, err \in Errors :
           CreateBody("create_dummy_comm", callers, outcome, err)

\* A call through the library's global entry point, comm.create_comm(...):
\* whatever the slot holds is called (line 22 rebinds the slot).
LibCreateComm ==
    /\ commPresent
    /\ NextId <= MaxInst
    /\ IF create_comm = "create_dummy_comm"
       THEN \E callers \in Stacks, outcome \in Outcomes, err \in Errors :
                CreateBody("comm.create_comm", callers, outcome, err)
       ELSE /\ objs' = Append(objs, NewObj("LibraryComm", "library_default", <<>>))
            /\ alive' = alive \cup {NextId}
            /\ held' = held \cup {NextId}
            /\ last' = [NoOp EXCEPT !.op = "comm.create_comm",
                                    !.served = "library_default",
                                    !.ret = NextId]
            /\ UNCHANGED << commPresent, loaded, module_names, create_comm,
                            orphan_comm_stacks, output, returned, thr >>

\* A direct construction DummyComm(...) (class of line 12, or of line 25 when
\* the library is absent): no factory, hence no registration.
ConstructDummyComm ==
    /\ "DummyComm" \in module_names
    /\ NextId <= MaxInst
    /\ \E ok \in BOOLEAN, err \in Errors :
         /\ IF ok
            THEN /\ objs' = Append(objs,
                        NewObj(DummyCommClass(commPresent), "constructor", <<>>))
                 /\ alive' = alive \cup {NextId}
                 /\ held' = held \cup {NextId}
            ELSE UNCHANGED << objs, alive, held >>
         /\ last' = [NoOp EXCEPT !.op = "DummyComm",
                                 !.thrown = IF ok THEN "none" ELSE err,
                                 !.raised = IF ok THEN "none" ELSE err,
                                 !.ret = IF ok THEN NextId ELSE 0]
    /\ UNCHANGED << commPresent, loaded, module_names, create_comm,
                    orphan_comm_stacks, output, returned, thr >>

\* i.publish_msg(msg_type, data, ...) on an instance of the module's DummyComm
\* class its owner still holds; `data` stands for all the optional arguments
\* (data, metadata, buffers, **keys), none of which the body reads.
PublishMsg ==
    \E i \in held, msg_type \in MsgTypes, data \in Payloads :
      /\ objs[i].cls \in {"DummyComm", "FallbackDummyComm"}
      /\ IF "publish_msg" \in Methods(objs[i].cls)
         THEN /\ output' = publish_msg(output,
                               <<i, msg_type, data>>)
              /\ last' = [NoOp EXCEPT !.op = "publish_msg", !.target = i]
         ELSE /\ output' = output
              /\ last' = [NoOp EXCEPT !.op = "publish_msg", !.target = i,
                                      !.thrown = "AttributeError",
                                      !.raised = "AttributeError"]
      /\ UNCHANGED << commPresent, loaded, module_names, create_comm,
                      orphan_comm_stacks, objs, alive, held, returned, thr >>

\* The owner of an instance drops every reference it holds to it.
DropRef ==
    \E i \in held :
      /\ held' = held \ {i}
      /\ last' = [NoOp EXCEPT !.op = "del", !.target = i]
      /\ UNCHANGED << commPresent, loaded, module_names, create_comm,
                      orphan_comm_stacks, objs, alive, output, returned, thr >>

\* The collector reclaims an object nothing references any more.
Reclaim ==
    \E i \in alive :
      /\ Reclaimable(i)
      /\ alive' = alive \ {i}
      /\ last' = [NoOp EXCEPT !.op = "gc", !.target = i]
      /\ UNCHANGED << commPresent, loaded, module_names, create_comm,
                      orphan_comm_stacks, objs, held, output, returned, thr >>

Next ==
    \/ LoadModule
    \/ CreateDummyComm
    \/ LibCreateComm
    \/ ConstructDummyComm
    \/ PublishMsg
    \/ DropRef
    \/ Reclaim

Spec == Init /\ [][Next]_vars

----------------------------------------------------------------------------
(* create_dummy_comm called from several threads, with no lock: each call   *)
(* is split at its line boundaries, and the threads' steps interleave      *)
(* freely.  comm and stacktrace are locals of the call (thr[t]); the only  *)
(* shared object is the dict, which line 19 updates in place in a single   *)
(* STORE_SUBSCR, so the store itself is one step.                          *)

\* The process once the module body has run with the library present.
InitConc ==
    /\ commPresent = TRUE
    /\ loaded = TRUE
    /\ module_names = ModuleNames(TRUE)
    /\ create_comm = PatchedSlot(TRUE, "library_default")
    /\ orphan_comm_stacks = [x \in {} |-> <<>>]
    /\ objs = <<>>
    /\ alive = {}
    /\ held = {}
    /\ output = <<>>
    /\ returned = <<>>
    /\ last = NoOp
    /\ thr = [t \in Threads |-> IdleThread]

\* Line 17: comm = DummyComm(*args, **kwargs), which may raise.
T_Construct(t) ==
    /\ thr[t].pc = "idle"
    /\ "create_dummy_comm" \in module_names
    /\ NextId <= MaxInst
    /\ \E callers \in Stacks, ok \in BOOLEAN :
         IF ok
         THEN /\ objs' = Append(objs,
                     NewObj(DummyCommClass(commPresent), "create_dummy_comm", callers))
              /\ alive' = alive \cup {NextId}
              /\ thr' = [thr EXCEPT ![t] = [pc |-> "line18", callers |-> callers,
                                            comm |-> NextId, stacktrace |-> <<>>]]
         ELSE /\ thr' = [thr EXCEPT ![t] = [IdleThread EXCEPT !.pc = "raised",
                                                              !.callers = callers]]
              /\ UNCHANGED << objs, alive >>
    /\ UNCHANGED << commPresent, loaded, module_names, create_comm,
                    orphan_comm_stacks, held, output, returned, last >>

\* Line 18: stacktrace = "".join(traceback.format_stack()), which may raise.
T_FormatStack(t) ==
    /\ thr[t].pc = "line18"
    /\ \E ok \in BOOLEAN :
         thr' = [thr EXCEPT ![t].pc = IF ok THEN "line19" ELSE "raised",
                            ![t].stacktrace =
                                IF ok THEN CaptureStack(thr[t].callers) ELSE <<>>]
    /\ UNCHANGED << commPresent, loaded, module_names, create_comm,
                    orphan_comm_stacks, objs, alive, held, output, returned, last >>

\* Line 19: orphan_comm_stacks[comm] = stacktrace.
T_Store(t) ==
    /\ thr[t].pc = "line19"
    /\ orphan_comm_stacks' =
           StoreSubscr(orphan_comm_stacks, thr[t].comm, thr[t].stacktrace)
    /\ thr' = [thr EXCEPT ![t].pc = "line20"]
    /\ UNCHANGED << commPresent, loaded, module_names, create_comm,
                    objs, alive, held, output, returned, last >>

\* Line 20: return comm.
T_Return(t) ==
    /\ thr[t].pc = "line20"
    /\ returned' = Append(returned, thr[t].comm)
    /\ held' = held \cup {thr[t].comm}
    /\ thr' = [thr EXCEPT ![t].pc = "returned"]
    /\ UNCHANGED << commPresent, loaded, module_names, create_comm,
                    orphan_comm_stacks, objs, alive, output, last >>

NextConc ==
    \E t \in Threads :
        \/ T_Construct(t)
        \/ T_FormatStack(t)
        \/ T_Store(t)
        \/ T_Return(t)

SpecConc == InitConc /\ [][NextConc]_vars

----------------------------------------------------------------------------
(* Properties *)

Range(s) == {s[k] : k \in 1..Len(s)}

\* sub occurs in s as a contiguous piece.
Contains(s, sub) ==
    \E k \in 0..(Len(s) - Len(sub)) : SubSeq(s, k + 1, k + Len(sub)) = sub

CreateOps == {"create_dummy_comm", "comm.create_comm"}

FactoryMade == {i \in 1..Len(objs) : objs[i].origin = "create_dummy_comm"}

\* C1: after any sequence of factory calls, direct constructions and
\* publish_msg calls, an instance is a key of orphan_comm_stacks if and only
\* if a completed call of create_dummy_comm created it.
C1_RegistryIffFactoryMade ==
    /\ DOMAIN orphan_comm_stacks \subseteq 1..Len(objs)
    /\ \A i \in 1..Len(objs) :
           (i \in DOMAIN orphan_comm_stacks) <=> (i \in FactoryMade)

\* A factory-made key beside a directly constructed DummyComm that is no key,
\* right after a publish_msg.
C1_Witness ==
    /\ last.op = "publish_msg"
    /\ \E i, j \in 1..Len(objs) :
         /\ objs[i].origin = "create_dummy_comm"
         /\ i \in DOMAIN orphan_comm_stacks
         /\ objs[j].origin = "constructor"
         /\ objs[j].cls = "DummyComm"
         /\ j \notin DOMAIN orphan_comm_stacks

\* C2: after N successful create_dummy_comm calls from the empty registry,
\* the registry holds exactly N entries, one per returned instance.
C2_OneEntryPerReturned ==
    /\ Cardinality(DOMAIN orphan_comm_stacks) = Len(returned)
    /\ DOMAIN orphan_comm_stacks = Range(returned)
    /\ \A j, k \in 1..Len(returned) : returned[j] = returned[k] => j = k

\* Immediately after the second (or a later) successful call.
C2_Witness ==
    /\ Len(returned) >= 2
    /\ last.op \in CreateOps
    /\ last.ret = returned[Len(returned)]
    /\ Cardinality(DOMAIN orphan_comm_stacks) >= 2

\* C3: publish_msg on a channel the factory created never raises, produces
\* no output, and leaves the registry and the library's slot unchanged.
C3_PublishIsNoOp ==
    [][ (/\ last'.op = "publish_msg"
         /\ objs[last'.target].origin = "create_dummy_comm")
        => (/\ last'.raised = "none"
            /\ output' = output
            /\ output' = <<>>
            /\ orphan_comm_stacks' = orphan_comm_stacks
            /\ create_comm' = create_comm) ]_vars

\* A publish_msg has just run on a registered, factory-made channel.
C3_Witness ==
    /\ last.op = "publish_msg"
    /\ last.target \in DOMAIN orphan_comm_stacks
    /\ objs[last.target].origin = "create_dummy_comm"

\* C4: with the library present, every call through comm.create_comm made
\* after the module was loaded is served by create_dummy_comm, and the
\* instance it returns is a DummyComm that is a key of the registry.
C4_EntryPointServedByFactory ==
    (commPresent /\ loaded /\ last.op = "comm.create_comm")
    => /\ last.served = "create_dummy_comm"
       /\ last.raised = "none" =>
            /\ last.ret \in DOMAIN orphan_comm_stacks
            /\ objs[last.ret].cls = "DummyComm"

\* A call through the entry point, after loading, has returned an instance.
C4_Witness ==
    /\ commPresent /\ loaded
    /\ last.op = "comm.create_comm"
    /\ last.served = "create_dummy_comm"
    /\ last.ret \in DOMAIN orphan_comm_stacks

\* C5: without the library, loading patches nothing and defines no factory;
\* the fallback DummyComm can be instantiated, has no publish_msg, and the
\* registry stays empty whatever is instantiated.
C5_FallbackIsInert ==
    (loaded /\ ~commPresent)
    => /\ create_comm = "no_library"
       /\ "create_dummy_comm" \notin module_names
       /\ "DummyComm" \in module_names
       /\ orphan_comm_stacks = [x \in {} |-> <<>>]
       /\ \A i \in 1..Len(objs) :
            /\ objs[i].cls = "FallbackDummyComm"
            /\ "publish_msg" \notin Methods(objs[i].cls)
       /\ last.op = "publish_msg" => last.raised = "AttributeError"

\* Two fallback instances exist and publish_msg was just attempted on one.
C5_Witness ==
    /\ loaded /\ ~commPresent
    /\ Len(objs) >= 2
    /\ last.op = "publish_msg"

\* C6: every value of the registry is a non-empty string, the stack captured
\* by the call that created its key, and contains the frame of that call's
\* caller.
C6_ValueIsOwnStack ==
    \A i \in DOMAIN orphan_comm_stacks :
        /\ Len(orphan_comm_stacks[i]) > 0
        /\ orphan_comm_stacks[i] =
               Join(FormatStack(objs[i].callers \o <<"create_dummy_comm">>))
        /\ Contains(orphan_comm_stacks[i],
                    FormatFrame(objs[i].callers[Len(objs[i].callers)]))

\* Two entries created from different call sites hold different stacks.
C6_Witness ==
    \E i, j \in DOMAIN orphan_comm_stacks :
        /\ objs[i].callers = <<"app.py:run", "widget.py:open">>
        /\ objs[j].callers = <<"app.py:run">>
        /\ orphan_comm_stacks[i] # orphan_comm_stacks[j]

\* C7: a create_dummy_comm call whose constructor or stack capture fails
\* delivers that very error to its caller and leaves the registry as it was.
C7_FailurePropagatesNoEntry ==
    [][ (last'.op \in CreateOps /\ last'.thrown # "none")
        => (/\ last'.raised = last'.thrown
            /\ orphan_comm_stacks' = orphan_comm_stacks) ]_vars

\* The stack capture of a factory call has just failed, after the instance
\* was constructed, with the registry non-empty.
C7_Witness ==
    /\ last.op \in CreateOps
    /\ last.raised = "MemoryError"
    /\ Len(objs) >= 2
    /\ objs[Len(objs)].origin = "create_dummy_comm_failed"
    /\ DOMAIN orphan_comm_stacks # {}
    /\ Len(objs) \notin DOMAIN orphan_comm_stacks

\* C8: no operation removes or overwrites an entry of the registry.
C8_EntriesPersist ==
    [][ \A i \in DOMAIN orphan_comm_stacks :
            /\ i \in DOMAIN orphan_comm_stacks'
            /\ orphan_comm_stacks'[i] = orphan_comm_stacks[i] ]_vars

\* Two entries exist and the owner of one has just dropped it.
C8_Witness ==
    /\ Cardinality(DOMAIN orphan_comm_stacks) >= 2
    /\ last.op = "del"
    /\ last.target \in DOMAIN orphan_comm_stacks

\* C9 as stated: the registry's reference is non-owning, so a key whose
\* owner has dropped every reference can be reclaimed.
C9_RegistryNonOwning ==
    \A i \in DOMAIN orphan_comm_stacks : i \notin held => Reclaimable(i)

\* C9 amended: the registry's reference is owning; every key stays alive,
\* also after its owner dropped it.
C9_KeysStayAlive == DOMAIN orphan_comm_stacks \subseteq alive

\* The collector has just reclaimed some object while a key its owner
\* dropped is still alive.
C9_Witness ==
    /\ last.op = "gc"
    /\ \E i \in DOMAIN orphan_comm_stacks : i \notin held /\ i \in alive

AllCallsEnded == \A t \in Threads : thr[t].pc \in {"idle", "returned", "raised"}

\* C10: concurrent create_dummy_comm calls lose no insertion: once all calls
\* have ended, every returned instance is a key mapped to the stack its own
\* call captured.
C10_NoLostInsert ==
    AllCallsEnded
    => /\ Range(returned) \subseteq DOMAIN orphan_comm_stacks
       /\ \A t \in Threads :
            thr[t].pc = "returned"
            => /\ thr[t].comm \in DOMAIN orphan_comm_stacks
               /\ orphan_comm_stacks[thr[t].comm] = thr[t].stacktrace
               /\ thr[t].stacktrace =
                      Join(FormatStack(thr[t].callers \o <<"create_dummy_comm">>))

\* Every thread has returned, two of them from different call sites, and the
\* call that constructed first returned last (the calls overlapped).
C10_Witness ==
    /\ \A t \in Threads : thr[t].pc = "returned"
    /\ \E t, u \in Threads : thr[t].callers # thr[u].callers
    /\ returned[1] > returned[Len(returned)]

====
